---- MODULE Spec2Model ----
(***************************************************************************)
(* Themis: an in-memory OpenAPI document with a file-backed copy.          *)
(*                                                                         *)
(* JavaScript objects are functions whose domain is the set of defined     *)
(* keys (an undefined field is a key outside the domain).  Strings that    *)
(* take part in path arithmetic are sequences of tokens, where "/" and     *)
(* "." are tokens of their own and every other token is an opaque chunk.   *)
(* fs.writeFile is not atomic: it opens the file with flag 'w' (create or  *)
(* truncate), writes the buffer from offset 0 of its own descriptor, and   *)
(* only then runs the callback on the main thread; the three steps of two  *)
(* calls may interleave.                                                   *)
(***************************************************************************)
EXTENDS Integers, Sequences, FiniteSets, TLC

VARIABLES
  pc,         \* "new" before construction, "ready" after, "threw" if the constructor threw
  themis,     \* the fields of the Themis instance
  schemaFilePath, \* prepareFiles' local, kept by the closure it hands to fs.writeFile
  cache,      \* Node's require cache entry for the schema file: {} or {exports}
  aliased,    \* this.components is the very object held by the cached exports
  writes,     \* every fs.writeFile dispatched so far, in dispatch order
  file,       \* the file at schemaFilePath
  dirExists,  \* the docs directory exists
  calls,      \* number of public calls the caller has yet to make
  last,       \* what the program's last step did: operation, exception, log lines
  arrays,     \* the arrays a caller of EXTENDPROPERTIES has allocated, by address
  extended    \* the schema handed to EXTENDPROPERTIES and the schema it returned

vars == <<pc, themis, schemaFilePath, cache, aliased, writes, file, dirExists, calls, last,
          arrays, extended>>

(***************************************************************************)
(* Bounds                                                                  *)
(***************************************************************************)
MaxCalls == 2      \* public calls of a run that may use every operation
MaxIOCalls == 3    \* public calls of a run that mutates, reloads and does I/O
MaxInFlight == 2   \* fs.writeFile calls that may be unsettled at once
MaxSyncCalls == 2  \* public calls of a run made in one synchronous turn
MaxConfigCalls == 1 \* public calls of a run that is about the configuration

(***************************************************************************)
(* Generic object helpers                                                  *)
(***************************************************************************)
EmptyObj == <<>>

Has(o, k) == k \in DOMAIN o

Put(o, k, v) == [j \in (DOMAIN o) \cup {k} |-> IF j = k THEN v ELSE o[j]]

Del(o, k) == [j \in (DOMAIN o) \ {k} |-> o[j]]

RECURSIVE SetSum(_, _)
SetSum(S, o) ==
  IF S = {} THEN 0
  ELSE LET k == CHOOSE j \in S : TRUE IN o[k] + SetSum(S \ {k}, o)

(***************************************************************************)
(* Strings and paths                                                       *)
(***************************************************************************)
Slash == "/"
Dot == "."
EmptyStr == <<>>
DotJson == <<Dot, "json">>

RECURSIVE LastIndexOf(_, _)
LastIndexOf(s, c) ==
  IF s = <<>> THEN 0
  ELSE IF s[Len(s)] = c THEN Len(s)
  ELSE LastIndexOf(SubSeq(s, 1, Len(s) - 1), c)

BaseName(p) == SubSeq(p, LastIndexOf(p, Slash) + 1, Len(p))

ExtName(p) ==
  LET base == BaseName(p)
      d    == LastIndexOf(base, Dot)
  IN IF d <= 1 \/ base = <<Dot, Dot>> THEN EmptyStr
     ELSE SubSeq(base, d, Len(base))

(***************************************************************************)
(* Configuration                                                           *)
(***************************************************************************)
defaultConfig == [docsDir |-> <<"themis">>, schemaFilePrefix |-> <<"spec", Dot>>]

Truthy(o, k) == Has(o, k) /\ o[k] # EmptyStr

\* the configuration is ignored
checkAndConstructConfig_DefaultsOnly(config) == defaultConfig

checkAndConstructConfig(config) ==
  [k \in (DOMAIN config) \cup {"docsDir", "schemaFilePrefix"} |->
     IF k \in {"docsDir", "schemaFilePrefix"}
     THEN IF Truthy(config, k) /\ config[k] # defaultConfig[k]
          THEN config[k] ELSE defaultConfig[k]
     ELSE config[k]]

SchemaFilePath(projectRoot, config, apiVersion) ==
  projectRoot \o <<Slash>> \o config.docsDir \o <<Slash>>
    \o config.schemaFilePrefix \o apiVersion \o DotJson

(***************************************************************************)
(* JSON                                                                    *)
(* An element of a sequence-valued section is an object with an identity:  *)
(* [src, n] names the object, val is its content.  JSON.stringify keeps    *)
(* the content only and drops undefined fields; parsing the text builds    *)
(* fresh objects.  All scalar tokens and all keys are taken to be equally  *)
(* long, so the length of a text grows with the number of its entries.     *)
(***************************************************************************)
SeqFields == {"servers", "security", "tags"}
Publishable ==
  {"openapi", "info", "servers", "paths", "components", "security", "tags", "externalDocs"}

Contents(s) == [i \in 1..Len(s) |-> s[i].val]

Revive(s) == [i \in 1..Len(s) |-> [src |-> "file", n |-> i, val |-> s[i]]]

JSONstringify(o) ==
  [k \in DOMAIN o |-> IF k \in SeqFields THEN Contents(o[k]) ELSE o[k]]

JSONparse(j) ==
  [k \in DOMAIN j |-> IF k \in SeqFields THEN Revive(j[k]) ELSE j[k]]

MapSize(m) == Cardinality(DOMAIN m)

NestedSize(m) == SetSum(DOMAIN m, [k \in DOMAIN m |-> 1 + MapSize(m[k])])

FieldSize(k, v) ==
  CASE k = "openapi" -> 1
    [] k \in SeqFields -> 1 + Len(v)
    [] k \in {"info", "externalDocs"} -> 1 + MapSize(v)
    [] k = "paths" -> 1 + NestedSize(v)
    [] k = "components" ->
         1 + SetSum(DOMAIN v, [c \in DOMAIN v |-> 1 + NestedSize(v[c])])

TextLength(j) == 2 + SetSum(DOMAIN j, [k \in DOMAIN j |-> FieldSize(k, j[k])])

(***************************************************************************)
(* The file at schemaFilePath: absent, or a text.  A text is empty (just   *)
(* created or truncated), whole (exactly the text of one JSON value) or    *)
(* garbled (a shorter text written over the head of a longer one).         *)
(***************************************************************************)
AbsentFile == [kind |-> "absent", json |-> EmptyObj, size |-> 0]
EmptyFile == [kind |-> "empty", json |-> EmptyObj, size |-> 0]
WholeFile(j) == [kind |-> "whole", json |-> j, size |-> TextLength(j)]
GarbledFile(n) == [kind |-> "garbled", json |-> EmptyObj, size |-> n]

existsSync(f) == f.kind # "absent"

\* open(path, 'w'): O_CREAT | O_TRUNC
OpenTruncate(f) == EmptyFile

\* write(fd, buffer) from offset 0 of a descriptor opened earlier
WriteFromStart(f, text) ==
  IF TextLength(text) >= f.size THEN WholeFile(text) ELSE GarbledFile(f.size)

(***************************************************************************)
(* ts-deepmerge on values of a known nesting depth: depth 0 is a scalar,   *)
(* depth d > 0 a keyed map of values of depth d - 1.  Sequences are        *)
(* concatenated and filtered through a Set (uniqueArrayItems).             *)
(***************************************************************************)
\* the incoming map replaces the existing one
merge_Replace(d, a, b) == b

RECURSIVE merge(_, _, _)
merge(d, a, b) ==
  IF d = 0 THEN b
  ELSE [k \in (DOMAIN a) \cup (DOMAIN b) |->
          IF k \in DOMAIN a /\ k \in DOMAIN b THEN merge(d - 1, a[k], b[k])
          ELSE IF k \in DOMAIN b THEN b[k] ELSE a[k]]

RECURSIVE Unique(_)
Unique(s) ==
  IF s = <<>> THEN <<>>
  ELSE LET init == Unique(SubSeq(s, 1, Len(s) - 1))
           x    == s[Len(s)]
       IN IF \E i \in 1..Len(init) : init[i] = x THEN init ELSE Append(init, x)

mergeArrays(a, b) == Unique(a \o b)

\* the fields of an InfoObject that are objects themselves
InfoMapFields == {"contact", "license"}

\* a field that both maps have is taken from the incoming map
mergeFields_Shallow(maps, a, b) ==
  [k \in (DOMAIN a) \cup (DOMAIN b) |-> IF k \in DOMAIN b THEN b[k] ELSE a[k]]

\* merge of two maps whose fields named in maps are objects and whose
\* other fields are scalars: a scalar both have is the incoming one, an
\* object both have is merged in turn
mergeFields(maps, a, b) ==
  [k \in (DOMAIN a) \cup (DOMAIN b) |->
     IF k \in DOMAIN a /\ k \in DOMAIN b
     THEN IF k \in maps THEN merge(1, a[k], b[k]) ELSE b[k]
     ELSE IF k \in DOMAIN b THEN b[k] ELSE a[k]]

(***************************************************************************)
(* Inputs                                                                  *)
(***************************************************************************)
projectRoot == <<Slash, "app">>

InfoInit == [title |-> "Pets API", version |-> "1.0"]

\* [apiVersion, config argument, themis.config.json]; an absent one is {}
CtorInputs ==
  { [apiVersion |-> <<"v1">>, config |-> {}, module |-> {EmptyObj}],
    [apiVersion |-> <<"v1", Slash>>, config |-> {}, module |-> {EmptyObj}],
    [apiVersion |-> <<"v1">>, config |-> {}, module |-> {}] }

\* what an earlier run may have left in the file
PersistedDoc ==
  [openapi |-> "3.0.0", info |-> [title |-> "Old API"], paths |-> EmptyObj,
   components |-> [schemas |-> [Old |-> [type |-> "object"]]], tags |-> <<"old">>]

InitialFiles == {AbsentFile, WholeFile(EmptyObj), WholeFile(PersistedDoc)}

Obj(n, v) == [src |-> "caller", n |-> n, val |-> v]

OpenapiVersions == {"3.1.0"}
InfoFragments == {[title |-> "Pets v2", description |-> "d"]}
Servers == {Obj(1, "s1")}
ExternalDocsFragments == {[url |-> "u"]}
SecurityRequirements == {Obj(1, "r1")}
Tags == {Obj(1, "t1")}
PathKeys == {"/pets"}
PathItems == {[get |-> "op"]}
Categories ==
  {"schemas", "parameters", "responses", "headers", "requestBodies",
   "securitySchemes", "examples", "links", "callbacks"}
DefinedCategories == {"schemas", "links"}
ComponentKeys == {"Pet"}
ComponentDefs == {[type |-> "object"]}
ComponentsFragments == {[schemas |-> [Owner |-> [type |-> "object"]]]}
Descriptions ==
  { [openapi |-> "3.1.0", info |-> [description |-> "d"]],
    [tags |-> <<Obj(2, "t2")>>] }

One(k, v) == [j \in {k} |-> v]

(***************************************************************************)
(* Themis                                                                  *)
(* A running call is a record st: t the instance, w the writes dispatched, *)
(* log the lines logged, err the exception that ended it ("none" if none). *)
(***************************************************************************)
Call(t, w) == [t |-> t, w |-> w, log |-> {}, err |-> "none"]

Field(t, k, default) == IF Has(t, k) THEN t[k] ELSE default

\* every field of the instance is kept
shaveDownToSpec_AllFields(t) == t

shaveDownToSpec(t) == [k \in (DOMAIN t) \cap Publishable |-> t[k]]

HasSchemaFile(t) == Has(t, "schemaFile") /\ t.schemaFile # EmptyStr

Write(kind, path, content) ==
  [kind |-> kind, path |-> path, content |-> content, stage |-> "queued",
   overtook |-> FALSE]

\* syncWrap after its callback has run and left st
syncWrap(st) ==
  IF st.err # "none" THEN st
  ELSE LET converted == JSONstringify(shaveDownToSpec(st.t))
       IN IF HasSchemaFile(st.t)
          THEN [st EXCEPT !.w = Append(@, Write("flush", st.t.schemaFile, converted))]
          ELSE [st EXCEPT !.log = @ \cup {"Sync skipped"}]

setOpenapi(st, openapi) == [st EXCEPT !.t = Put(@, "openapi", openapi)]

\* the flush is dispatched and the merge is left for later
defineInfo_Deferred(st, info) == syncWrap(st)

defineInfo(st, info) ==
  syncWrap([st EXCEPT !.t =
              Put(@, "info", mergeFields(InfoMapFields, Field(st.t, "info", EmptyObj), info))])

defineServers(st, servers) ==
  syncWrap([st EXCEPT !.t = Put(@, "servers", mergeArrays(Field(st.t, "servers", <<>>), servers))])

server(st, s) == defineServers(st, <<s>>)

defineExternalDocs(st, externalDocs) ==
  syncWrap([st EXCEPT !.t =
              Put(@, "externalDocs", merge(1, Field(st.t, "externalDocs", EmptyObj), externalDocs))])

defineSecurityRequirements(st, reqs) ==
  syncWrap([st EXCEPT !.t = Put(@, "security", mergeArrays(Field(st.t, "security", <<>>), reqs))])

securityRequirement(st, r) == defineSecurityRequirements(st, <<r>>)

defineTags(st, tags) ==
  syncWrap([st EXCEPT !.t = Put(@, "tags", mergeArrays(Field(st.t, "tags", <<>>), tags))])

definePaths(st, paths) ==
  syncWrap([st EXCEPT !.t = Put(@, "paths", merge(2, Field(st.t, "paths", EmptyObj), paths))])

\* the one path becomes the whole path map
path_Install(st, p, item) == syncWrap([st EXCEPT !.t = Put(@, "paths", One(p, item))])

path(st, p, item) == definePaths(st, One(p, item))

\* the fragment becomes the whole registry
defineComponents_Assign(st, components) ==
  syncWrap([st EXCEPT !.t = Put(@, "components", components)])

defineComponents(st, components) ==
  syncWrap([st EXCEPT !.t =
              Put(@, "components", merge(3, Field(st.t, "components", EmptyObj), components))])

\* the registry becomes the one category
defineCategoryComponents_Reset(st, category, fragment) ==
  syncWrap([st EXCEPT !.t = Put(@, "components", One(category, fragment))])

\* define<Category>Components: merge(this.components?.<category> ?? [], fragment);
\* ts-deepmerge throws a TypeError when an argument is an array
defineCategoryComponents(st, category, fragment) ==
  syncWrap(
    IF Has(st.t, "components")
    THEN IF Has(st.t.components, category)
         THEN [st EXCEPT !.t = Put(@, "components",
                 Put(st.t.components, category, merge(2, st.t.components[category], fragment)))]
         ELSE [st EXCEPT !.err = "TypeError"]
    ELSE [st EXCEPT !.t = Put(@, "components", One(category, fragment))])

categoryComponent(st, category, key, def) ==
  defineCategoryComponents(st, category, One(key, def))

describe(st, description) ==
  LET s1 == IF Has(description, "openapi") THEN setOpenapi(st, description.openapi) ELSE st
      s2 == IF Has(description, "info") THEN defineInfo(s1, description.info) ELSE s1
      s3 == IF Has(description, "servers") THEN defineServers(s2, description.servers) ELSE s2
      s4 == IF Has(description, "externalDocs")
            THEN defineExternalDocs(s3, description.externalDocs) ELSE s3
      s5 == IF Has(description, "security")
            THEN defineSecurityRequirements(s4, description.security) ELSE s4
      s6 == IF Has(description, "tags") THEN defineTags(s5, description.tags) ELSE s5
  IN syncWrap(s6)

(***************************************************************************)
(* Construction                                                            *)
(***************************************************************************)
\* what a call hands back to its caller
Void == [tag |-> "void", v |-> EmptyObj]
Undefined == [tag |-> "undefined", v |-> EmptyObj]
Value(v) == [tag |-> "value", v |-> v]

Did(op, err, log, w) == [op |-> op, err |-> err, log |-> log, w |-> w, ret |-> Void]

\* prepareFiles up to the directory check: the resolved schemaFile
ResolveSchemaFile(filePath) ==
  IF ExtName(filePath) = DotJson THEN filePath ELSE EmptyStr

\* prepareFiles' last test: the file is to be created
NeedsBootstrap(schemaFile, f) == schemaFile = EmptyStr \/ ~existsSync(f)

Constructor(in, mkdirOk) ==
  /\ pc = "new"
  /\ LET t0 == [openapi |-> "3.0.0", paths |-> EmptyObj,
                apiVersion |-> in.apiVersion, info |-> InfoInit]
     IN IF in.module = {}
        THEN \* require(projectRoot + '/themis.config.json') throws
             /\ pc' = "threw"
             /\ last' = Did("constructor", "MODULE_NOT_FOUND", {}, 0)
             /\ UNCHANGED <<themis, schemaFilePath, writes, dirExists>>
        ELSE LET given == IF in.config # {} THEN in.config ELSE in.module
                 config == checkAndConstructConfig(CHOOSE c \in given : TRUE)
                 filePath == SchemaFilePath(projectRoot, config, in.apiVersion)
                 schemaFile == ResolveSchemaFile(filePath)
                 t1 == Put(t0, "schemaFile", schemaFile)
                 log1 == IF schemaFile = EmptyStr THEN {"Invalid file type"} ELSE {}
                 log2 == IF dirExists THEN log1 ELSE log1 \cup {"directory does not exist"}
             IN IF ~dirExists /\ ~mkdirOk
                THEN \* fs.mkdirSync throws
                     /\ pc' = "threw"
                     /\ last' = Did("constructor", "mkdirSync", log2, 0)
                     /\ UNCHANGED <<themis, schemaFilePath, writes, dirExists>>
                ELSE /\ pc' = "ready"
                     /\ dirExists' = TRUE
                     /\ themis' = t1
                     /\ schemaFilePath' = filePath
                     /\ IF NeedsBootstrap(schemaFile, file)
                        THEN /\ writes' = <<Write("bootstrap", filePath, JSONstringify(EmptyObj))>>
                             /\ last' = Did("constructor", "none",
                                            log2 \cup {"specification file not found"}, 0)
                        ELSE /\ writes' = <<>>
                             /\ last' = Did("constructor", "none", log2, 0)
  /\ UNCHANGED <<cache, aliased, file, calls, arrays, extended>>

(***************************************************************************)
(* fs.writeFile, step by step                                              *)
(***************************************************************************)
Stage(i, stage) == [writes EXCEPT ![i].stage = stage]

Settled(w) == w.stage \in {"done", "errored"}

\* the callback of write i has run; overtook records that the callback of
\* a write dispatched earlier had not
Complete(i, stage) ==
  [writes EXCEPT ![i].stage = stage,
                 ![i].overtook = \E k \in 1..(i - 1) : ~Settled(writes[k])]

InFlight(ws) == Cardinality({i \in 1..Len(ws) : ~Settled(ws[i])})

FsOpen(i, ok) ==
  /\ writes[i].stage = "queued"
  /\ IF ok
     THEN file' = OpenTruncate(file) /\ writes' = Stage(i, "opened")
     ELSE file' = file /\ writes' = Stage(i, "failed")
  /\ UNCHANGED <<arrays, extended, pc, themis, schemaFilePath, cache, aliased, dirExists, calls, last>>

\* a variant that lets a write put its text only after every earlier one has
FsWrite_InDispatchOrder(i, ok) ==
  /\ writes[i].stage = "opened"
  /\ \A k \in 1..(i - 1) : writes[k].stage \notin {"queued", "opened"}
  /\ IF ok
     THEN file' = WriteFromStart(file, writes[i].content) /\ writes' = Stage(i, "written")
     ELSE file' = file /\ writes' = Stage(i, "failed")
  /\ UNCHANGED <<arrays, extended, pc, themis, schemaFilePath, cache, aliased, dirExists, calls, last>>

FsWrite(i, ok) ==
  /\ writes[i].stage = "opened"
  /\ IF ok
     THEN file' = WriteFromStart(file, writes[i].content) /\ writes' = Stage(i, "written")
     ELSE file' = file /\ writes' = Stage(i, "failed")
  /\ UNCHANGED <<arrays, extended, pc, themis, schemaFilePath, cache, aliased, dirExists, calls, last>>

\* the callback prepareFiles handed to fs.writeFile
BootstrapCallback(i) ==
  /\ writes[i].kind = "bootstrap"
  /\ writes[i].stage \in {"written", "failed"}
  /\ IF writes[i].stage = "failed"
     THEN /\ writes' = Complete(i, "errored")
          /\ themis' = themis
          /\ last' = Did("bootstrapCallback", "none", {"Could not create"}, i)
     ELSE /\ writes' = Complete(i, "done")
          /\ themis' = Put(themis, "schemaFile", schemaFilePath)
          /\ last' = Did("bootstrapCallback", "none", {"Created"}, i)
  /\ UNCHANGED <<arrays, extended, pc, schemaFilePath, cache, aliased, file, dirExists, calls>>

\* a variant that dispatches the write again when it has failed
SyncCallback_Retry(i) ==
  /\ writes[i].kind = "flush"
  /\ writes[i].stage \in {"written", "failed"}
  /\ IF writes[i].stage = "failed"
     THEN /\ writes' = Append(Complete(i, "errored"),
                              Write("flush", writes[i].path, writes[i].content))
          /\ last' = Did("syncCallback", "none", {"Syncing", "Sync failed"}, i)
     ELSE /\ writes' = Complete(i, "done")
          /\ last' = Did("syncCallback", "none", {"Syncing", "Sync complete"}, i)
  /\ UNCHANGED <<arrays, extended, pc, themis, schemaFilePath, cache, aliased, file, dirExists, calls>>

\* the callback syncWrap handed to fs.writeFile
SyncCallback(i) ==
  /\ writes[i].kind = "flush"
  /\ writes[i].stage \in {"written", "failed"}
  /\ IF writes[i].stage = "failed"
     THEN /\ writes' = Complete(i, "errored")
          /\ last' = Did("syncCallback", "none", {"Syncing", "Sync failed"}, i)
     ELSE /\ writes' = Complete(i, "done")
          /\ last' = Did("syncCallback", "none", {"Syncing", "Sync complete"}, i)
  /\ UNCHANGED <<arrays, extended, pc, themis, schemaFilePath, cache, aliased, file, dirExists, calls>>

(***************************************************************************)
(* Public calls                                                            *)
(***************************************************************************)
CanCall == pc = "ready" /\ calls > 0

\* the call named op ran from Call(themis, writes) and left st
\* (a call that dispatches writes is made while fewer than MaxInFlight
\* writes are pending)
Returns(op, st) ==
  /\ (st.w = writes \/ InFlight(writes) < MaxInFlight)
  /\ themis' = st.t
  /\ writes' = st.w
  /\ calls' = calls - 1
  /\ last' = Did(op, st.err, st.log, 0)
  /\ UNCHANGED <<arrays, extended, pc, schemaFilePath, file, dirExists>>

Now == Call(themis, writes)

SetOpenapi(v) ==
  CanCall /\ Returns("setOpenapi", setOpenapi(Now, v)) /\ UNCHANGED <<cache, aliased>>

Describe(d) ==
  CanCall /\ Returns("describe", describe(Now, d)) /\ UNCHANGED <<cache, aliased>>

DefineInfo(f) ==
  CanCall /\ Returns("defineInfo", defineInfo(Now, f)) /\ UNCHANGED <<cache, aliased>>

DefineServers(ss) ==
  CanCall /\ Returns("defineServers", defineServers(Now, ss)) /\ UNCHANGED <<cache, aliased>>

Server(s) ==
  CanCall /\ Returns("server", server(Now, s)) /\ UNCHANGED <<cache, aliased>>

DefineExternalDocs(f) ==
  CanCall /\ Returns("defineExternalDocs", defineExternalDocs(Now, f))
          /\ UNCHANGED <<cache, aliased>>

DefineSecurityRequirements(rs) ==
  CanCall /\ Returns("defineSecurityRequirements", defineSecurityRequirements(Now, rs))
          /\ UNCHANGED <<cache, aliased>>

SecurityRequirement(r) ==
  CanCall /\ Returns("securityRequirement", securityRequirement(Now, r))
          /\ UNCHANGED <<cache, aliased>>

DefineTags(ts) ==
  CanCall /\ Returns("defineTags", defineTags(Now, ts)) /\ UNCHANGED <<cache, aliased>>

DefinePaths(ps) ==
  CanCall /\ Returns("definePaths", definePaths(Now, ps)) /\ UNCHANGED <<cache, aliased>>

Path(p, item) ==
  CanCall /\ Returns("path", path(Now, p, item)) /\ UNCHANGED <<cache, aliased>>

\* merge returns a new object: this.components is no longer the cached one
DefineComponents(f) ==
  /\ CanCall
  /\ Returns("defineComponents", defineComponents(Now, f))
  /\ aliased' = FALSE
  /\ cache' = cache

\* this.components.<category> = ... assigns into the object this.components is;
\* when that is the cached exports' object, the cache entry changes with it
InPlace(st) ==
  /\ aliased' = aliased
  /\ cache' = IF aliased /\ st.err = "none"
              THEN {Put(e, "components", st.t.components) : e \in cache}
              ELSE cache

DefineCategoryComponents(c, f) ==
  /\ CanCall
  /\ LET st == defineCategoryComponents(Now, c, f)
     IN Returns("defineCategoryComponents", st) /\ InPlace(st)

CategoryComponent(c, k, def) ==
  /\ CanCall
  /\ LET st == categoryComponent(Now, c, k, def)
     IN Returns("categoryComponent", st) /\ InPlace(st)

(***************************************************************************)
(* Reload                                                                  *)
(***************************************************************************)
\* this.<k> = persistedSpec.<k>
Assign(t, k, persistedSpec) ==
  IF Has(persistedSpec, k) THEN Put(t, k, persistedSpec[k]) ELSE Del(t, k)

\* require(String(this.schemaFile)): the cached exports if the module was
\* loaded before, else the parsed file; {} when it throws
Require(t, c, f) ==
  IF c # {} THEN c
  ELSE IF HasSchemaFile(t) /\ f.kind = "whole" THEN {JSONparse(f.json)}
  ELSE {}

loadFromFile(t, required) ==
  IF required = {} THEN t
  ELSE LET persistedSpec == CHOOSE e \in required : TRUE
           t1 == Assign(t, "servers", persistedSpec)
           t2 == Assign(t1, "externalDocs", persistedSpec)
           t3 == Assign(t2, "security", persistedSpec)
           t4 == Assign(t3, "tags", persistedSpec)
           t5 == Assign(t4, "components", persistedSpec)
           t6 == Assign(t5, "openapi", persistedSpec)
           t7 == Assign(t6, "paths", persistedSpec)
       IN Assign(t7, "info", persistedSpec)

LoadFromFile ==
  /\ CanCall
  /\ LET required == Require(themis, cache, file)
     IN /\ themis' = loadFromFile(themis, required)
        /\ cache' = required
        /\ aliased' = IF required = {} THEN aliased
                      ELSE \E e \in required : Has(e, "components")
        /\ last' = Did("loadFromFile", "none",
                       IF required = {} THEN {"Could not parse"} ELSE {}, 0)
  /\ calls' = calls - 1
  /\ UNCHANGED <<arrays, extended, pc, schemaFilePath, writes, file, dirExists>>

(***************************************************************************)
(* Read accessors and reference formatters                                 *)
(***************************************************************************)
\* get<Category>Component(key)
getComponent(t, category, key) ==
  IF Has(t, "components") /\ Has(t.components, category)
  THEN IF Has(t.components[category], key)
       THEN Value(t.components[category][key]) ELSE Undefined
  ELSE Value(EmptyObj)

\* the categories that have a get<Category>Component and a
\* get<Category>ComponentRef method
ReadCategories == Categories \ {"links"}

\* the category token each get<Category>ComponentRef writes in its template
RefToken ==
  [c \in ReadCategories |->
     CASE c = "schemas" -> "schemas"
       [] c = "parameters" -> "parameters"
       [] c = "responses" -> "responses"
       [] c = "headers" -> "headers"
       [] c = "requestBodies" -> "requestBodies"
       [] c = "securitySchemes" -> "securitySchemes"
       [] c = "examples" -> "examples"
       [] c = "callbacks" -> "callbacks"]

\* the pointer without its category token
getComponentRef_NoToken(category, key) ==
  One("$ref", <<"#", Slash, "components", Slash, key>>)

\* get<Category>ComponentRef(key): { "$ref": `#/components/<token>/${key}` }
getComponentRef(category, key) ==
  One("$ref", <<"#", Slash, "components", Slash, RefToken[category], Slash, key>>)

\* a read returns to its caller and leaves everything else as it was
Reads(op, ret) ==
  /\ CanCall
  /\ calls' = calls - 1
  /\ last' = [Did(op, "none", {}, 0) EXCEPT !.ret = ret]
  /\ UNCHANGED <<arrays, extended, pc, themis, schemaFilePath, cache, aliased, writes, file, dirExists>>

GetComponent(c, k) == Reads("getComponent", getComponent(themis, c, k))

GetComponentRef(c, k) == Reads("getComponentRef", Value(getComponentRef(c, k)))

(***************************************************************************)
(* The system                                                              *)
(***************************************************************************)
Start(budget) ==
  /\ pc = "new"
  /\ themis = EmptyObj
  /\ schemaFilePath = EmptyStr
  /\ cache = {}
  /\ aliased = FALSE
  /\ writes = <<>>
  /\ dirExists \in BOOLEAN
  /\ file \in InitialFiles
  /\ (~dirExists => file = AbsentFile)
  /\ calls = budget
  /\ last = Did("none", "none", {}, 0)
  /\ arrays = <<>>
  /\ extended = [schema |-> {}, ret |-> {}]

Init == Start(MaxCalls)

Next ==
  \/ \E in \in CtorInputs, mkdirOk \in BOOLEAN : Constructor(in, mkdirOk)
  \/ \E i \in 1..Len(writes), ok \in BOOLEAN : FsOpen(i, ok)
  \/ \E i \in 1..Len(writes), ok \in BOOLEAN : FsWrite(i, ok)
  \/ \E i \in 1..Len(writes) : BootstrapCallback(i)
  \/ \E i \in 1..Len(writes) : SyncCallback(i)
  \/ \E v \in OpenapiVersions : SetOpenapi(v)
  \/ \E d \in Descriptions : Describe(d)
  \/ \E f \in InfoFragments : DefineInfo(f)
  \/ \E s \in Servers : DefineServers(<<s>>)
  \/ \E s \in Servers : Server(s)
  \/ \E f \in ExternalDocsFragments : DefineExternalDocs(f)
  \/ \E r \in SecurityRequirements : DefineSecurityRequirements(<<r>>)
  \/ \E r \in SecurityRequirements : SecurityRequirement(r)
  \/ \E t \in Tags : DefineTags(<<t>>)
  \/ \E k \in PathKeys, item \in PathItems : DefinePaths(One(k, item))
  \/ \E k \in PathKeys, item \in PathItems : Path(k, item)
  \/ \E f \in ComponentsFragments : DefineComponents(f)
  \/ \E c \in DefinedCategories, k \in ComponentKeys, def \in ComponentDefs :
       DefineCategoryComponents(c, One(k, def))
  \/ \E c \in DefinedCategories, k \in ComponentKeys, def \in ComponentDefs :
       CategoryComponent(c, k, def)
  \/ LoadFromFile

Spec == Init /\ [][Next]_vars

\* a caller that mutates the metadata and a component category, and reloads
InitIO == Start(MaxIOCalls)

NextIO ==
  \/ \E in \in CtorInputs, mkdirOk \in BOOLEAN : Constructor(in, mkdirOk)
  \/ \E i \in 1..Len(writes), ok \in BOOLEAN : FsOpen(i, ok)
  \/ \E i \in 1..Len(writes), ok \in BOOLEAN : FsWrite(i, ok)
  \/ \E i \in 1..Len(writes) : BootstrapCallback(i)
  \/ \E i \in 1..Len(writes) : SyncCallback(i)
  \/ \E f \in InfoFragments : DefineInfo(f)
  \/ \E c \in DefinedCategories, k \in ComponentKeys, def \in ComponentDefs :
       CategoryComponent(c, k, def)
  \/ LoadFromFile

SpecIO == InitIO /\ [][NextIO]_vars

(***************************************************************************)
(* A script that makes its calls in one synchronous turn, as a spec file   *)
(* does when it is loaded: Node runs no fs.writeFile callback before the   *)
(* turn ends, so the writes it dispatches stay queued.  Its fragments      *)
(* include the empty one, a second key of each map, and an element that    *)
(* is a different object with the same content.                            *)
(***************************************************************************)
SyncInfoFragments ==
  InfoFragments \cup
    {EmptyObj, [contact |-> [name |-> "n", email |-> "e"]], [contact |-> [email |-> "e2"]]}
SyncServerLists == {<<>>, <<Obj(1, "s1")>>, <<Obj(2, "s1")>>}
SyncExternalDocsFragments == ExternalDocsFragments \cup {EmptyObj}
SyncSecurityLists == {<<>>, <<Obj(1, "r1")>>}
SyncTagLists == {<<>>, <<Obj(1, "t1")>>, <<Obj(2, "t1")>>}
SyncPathKeys == PathKeys \cup {"/owners"}
\* path() takes any string as the key
CallerPathKeys == SyncPathKeys \cup {"pets"}
\* the first character of each key
FirstChar == [k \in CallerPathKeys \cup {"/old"} |-> IF k = "pets" THEN "p" ELSE Slash]
SyncPathsFragments ==
  {EmptyObj} \cup {One(k, item) : k \in SyncPathKeys, item \in PathItems}
    \cup {[k \in SyncPathKeys |-> item] : item \in PathItems}
SyncComponentKeys == ComponentKeys \cup {"Owner"}
SyncCategoryFragments ==
  {EmptyObj} \cup {One(k, def) : k \in SyncComponentKeys, def \in ComponentDefs}
    \cup {[k \in SyncComponentKeys |-> def] : def \in ComponentDefs}
SyncComponentsFragments == ComponentsFragments \cup {EmptyObj}
SyncReadKeys == ComponentKeys \cup {"Missing"}

InitSync == Start(MaxSyncCalls)

NextSync ==
  \/ \E in \in CtorInputs, mkdirOk \in BOOLEAN : Constructor(in, mkdirOk)
  \/ \E v \in OpenapiVersions : SetOpenapi(v)
  \/ \E d \in Descriptions : Describe(d)
  \/ \E f \in SyncInfoFragments : DefineInfo(f)
  \/ \E ss \in SyncServerLists : DefineServers(ss)
  \/ \E s \in Servers : Server(s)
  \/ \E f \in SyncExternalDocsFragments : DefineExternalDocs(f)
  \/ \E rs \in SyncSecurityLists : DefineSecurityRequirements(rs)
  \/ \E r \in SecurityRequirements : SecurityRequirement(r)
  \/ \E ts \in SyncTagLists : DefineTags(ts)
  \/ \E ps \in SyncPathsFragments : DefinePaths(ps)
  \/ \E k \in CallerPathKeys, item \in PathItems : Path(k, item)
  \/ \E f \in SyncComponentsFragments : DefineComponents(f)
  \/ \E c \in DefinedCategories, f \in SyncCategoryFragments :
       DefineCategoryComponents(c, f)
  \/ \E c \in DefinedCategories, k \in SyncComponentKeys, def \in ComponentDefs :
       CategoryComponent(c, k, def)
  \/ \E c \in ReadCategories, k \in SyncReadKeys : GetComponent(c, k)
  \/ \E c \in ReadCategories, k \in SyncReadKeys : GetComponentRef(c, k)

SpecSync == InitSync /\ [][NextSync]_vars

(***************************************************************************)
(* Construction under every kind of configuration: a config argument that  *)
(* is absent, names its own directory and prefix, repeats the default,     *)
(* or holds an empty directory and a key the class does not know; and a    *)
(* themis.config.json that is empty, sets the prefix, or is missing.       *)
(***************************************************************************)
ConfigArguments ==
  { {},
    {[docsDir |-> <<"docs">>, schemaFilePrefix |-> <<"api", Dot>>]},
    {[docsDir |-> <<"themis">>]},
    {[docsDir |-> EmptyStr, port |-> <<"8080">>]} }

ConfigModules == { {EmptyObj}, {[schemaFilePrefix |-> <<"file", Dot>>]}, {} }

ConfigCtorInputs ==
  {[apiVersion |-> <<"v1">>, config |-> c, module |-> m] :
     c \in ConfigArguments, m \in ConfigModules}

InitConfig == Start(MaxConfigCalls)

NextConfig ==
  \/ \E in \in ConfigCtorInputs, mkdirOk \in BOOLEAN : Constructor(in, mkdirOk)
  \/ \E i \in 1..Len(writes), ok \in BOOLEAN : FsOpen(i, ok)
  \/ \E i \in 1..Len(writes), ok \in BOOLEAN : FsWrite(i, ok)
  \/ \E i \in 1..Len(writes) : BootstrapCallback(i)
  \/ \E i \in 1..Len(writes) : SyncCallback(i)
  \/ \E f \in InfoFragments : DefineInfo(f)

SpecConfig == InitConfig /\ [][NextConfig]_vars

(***************************************************************************)
(* One describe call carrying several sections, and the writes it          *)
(* dispatches.                                                             *)
(***************************************************************************)
MaxDescribeCalls == 1

SectionedDescriptions ==
  { [info |-> [description |-> "d"], tags |-> <<Obj(2, "t2")>>],
    [openapi |-> "3.1.0", externalDocs |-> [url |-> "u"]] }

InitDescribe == Start(MaxDescribeCalls)

NextDescribe ==
  \/ \E in \in CtorInputs, mkdirOk \in BOOLEAN : Constructor(in, mkdirOk)
  \/ \E i \in 1..Len(writes), ok \in BOOLEAN : FsOpen(i, ok)
  \/ \E i \in 1..Len(writes), ok \in BOOLEAN : FsWrite(i, ok)
  \/ \E i \in 1..Len(writes) : BootstrapCallback(i)
  \/ \E i \in 1..Len(writes) : SyncCallback(i)
  \/ \E d \in SectionedDescriptions : Describe(d)

SpecDescribe == InitDescribe /\ [][NextDescribe]_vars

(***************************************************************************)
(* Every public operation, on documents with several sections and a        *)
(* registry of two categories.                                             *)
(***************************************************************************)
MaxFrameCalls == 2

FrameComponentsFragments ==
  {[schemas |-> [Owner |-> [type |-> "object"]], links |-> [Next |-> [type |-> "object"]]]}

InitFrame == Start(MaxFrameCalls)

NextFrame ==
  \/ \E in \in CtorInputs, mkdirOk \in BOOLEAN : Constructor(in, mkdirOk)
  \/ \E v \in OpenapiVersions : SetOpenapi(v)
  \/ \E d \in Descriptions : Describe(d)
  \/ \E f \in InfoFragments : DefineInfo(f)
  \/ \E s \in Servers : DefineServers(<<s>>)
  \/ \E s \in Servers : Server(s)
  \/ \E f \in ExternalDocsFragments : DefineExternalDocs(f)
  \/ \E r \in SecurityRequirements : DefineSecurityRequirements(<<r>>)
  \/ \E r \in SecurityRequirements : SecurityRequirement(r)
  \/ \E t \in Tags : DefineTags(<<t>>)
  \/ \E k \in PathKeys, item \in PathItems : DefinePaths(One(k, item))
  \/ \E k \in PathKeys, item \in PathItems : Path(k, item)
  \/ \E f \in FrameComponentsFragments : DefineComponents(f)
  \/ \E c \in DefinedCategories, k \in ComponentKeys, def \in ComponentDefs :
       DefineCategoryComponents(c, One(k, def))
  \/ \E c \in DefinedCategories, k \in ComponentKeys, def \in ComponentDefs :
       CategoryComponent(c, k, def)
  \/ \E c \in ReadCategories, k \in SyncReadKeys : GetComponent(c, k)
  \/ \E c \in ReadCategories, k \in SyncReadKeys : GetComponentRef(c, k)
  \/ LoadFromFile

SpecFrame == InitFrame /\ [][NextFrame]_vars

(***************************************************************************)
(* EXTENDPROPERTIES (core/data.types.ts).  A schema holds its required     *)
(* list by address: the list itself is in arrays, so that two schemas can  *)
(* hold the same list.                                                     *)
(***************************************************************************)
MaxExtendCalls == 2

\* the schemas a caller builds, their required lists written out
SchemaShapes ==
  { [type |-> "object", properties |-> [id |-> "uuid"]],
    [type |-> "object", properties |-> [id |-> "uuid"], required |-> <<>>],
    [type |-> "object", properties |-> [id |-> "uuid"], required |-> <<"id">>],
    [type |-> "array", items |-> [type |-> "object", properties |-> [id |-> "uuid"]]],
    [type |-> "array",
     items |-> [type |-> "object", properties |-> [id |-> "uuid"], required |-> <<>>]],
    [type |-> "array",
     items |-> [type |-> "object", properties |-> [id |-> "uuid"], required |-> <<"id">>]] }

ExtensionProperties == {EmptyObj, [name |-> "string"], [id |-> "string"]}

\* the required argument: absent, or a list
ExtensionRequired == { {}, {<<>>}, {<<"name">>}, {<<"name", "id">>} }

\* !!_schema.items ? _schema.items : _schema
Extendee(schema) == IF Has(schema, "items") THEN schema.items ELSE schema

\* the schema of a shape, its required list placed in h at a new address
Allocate(h, shape) ==
  LET e == Extendee(shape)
      e1 == IF Has(e, "required") THEN Put(e, "required", Len(h) + 1) ELSE e
  IN [arrays |-> IF Has(e, "required") THEN Append(h, e.required) ELSE h,
      schema |-> IF Has(shape, "items") THEN Put(shape, "items", e1) ELSE e1]

\* let _required: the address of the list, or none (undefined)
RequiredOf(schema) ==
  IF Has(Extendee(schema), "required") THEN {Extendee(schema).required} ELSE {}

\* ...(required ?? [])
Spread(required) == IF required = {} THEN <<>> ELSE CHOOSE r \in required : TRUE

\* _required?.push(...items)
push(h, ref, items) ==
  IF ref = {} THEN h ELSE [h EXCEPT ![CHOOSE a \in ref : TRUE] = @ \o items]

\* the returned schema and the arrays after the call; a required key
\* holding undefined is an absent key
EXTENDPROPERTIES(h, schema, properties, required) ==
  LET properties_ == properties @@ Field(Extendee(schema), "properties", EmptyObj)
      required_ == RequiredOf(schema)
      extendee == Put(Extendee(schema), "properties", properties_)
  IN [arrays |-> push(h, required_, Spread(required)),
      ret |-> IF Has(schema, "items") THEN Put(schema, "items", extendee) ELSE extendee]

\* the caller builds the schema it will extend
MakeSchema(shape) ==
  /\ pc = "new" /\ extended.schema = {}
  /\ arrays' = Allocate(arrays, shape).arrays
  /\ extended' = [schema |-> {Allocate(arrays, shape).schema}, ret |-> {}]
  /\ UNCHANGED <<pc, themis, schemaFilePath, cache, aliased, writes, file, dirExists,
                 calls, last>>

\* the caller extends schema, which is the schema it built or one a call
\* has returned
ExtendProperties(schema, properties, required) ==
  /\ calls > 0
  /\ schema \in extended.schema \cup extended.ret
  /\ arrays' = EXTENDPROPERTIES(arrays, schema, properties, required).arrays
  /\ extended' = [extended EXCEPT
                    !.ret = {EXTENDPROPERTIES(arrays, schema, properties, required).ret}]
  /\ calls' = calls - 1
  /\ UNCHANGED <<pc, themis, schemaFilePath, cache, aliased, writes, file, dirExists, last>>

InitExtend == Start(MaxExtendCalls) /\ ~dirExists

NextExtend ==
  \/ \E shape \in SchemaShapes : MakeSchema(shape)
  \/ \E schema \in extended.schema \cup extended.ret,
        properties \in ExtensionProperties, required \in ExtensionRequired :
       ExtendProperties(schema, properties, required)

SpecExtend == InitExtend /\ [][NextExtend]_vars

(***************************************************************************)
(* Properties                                                              *)
(***************************************************************************)
MutationOps ==
  {"setOpenapi", "describe", "defineInfo", "defineServers", "server",
   "defineExternalDocs", "defineSecurityRequirements", "securityRequirement",
   "defineTags", "definePaths", "path", "defineComponents",
   "defineCategoryComponents", "categoryComponent"}

\* this step is a public call of one of ops
Called(ops) == calls' = calls - 1 /\ last'.op \in ops

Projection(t) == JSONstringify(shaveDownToSpec(t))

Quiescent == \A i \in 1..Len(writes) : Settled(writes[i])

Flushes == {i \in 1..Len(writes) : writes[i].kind = "flush"}

\* C1: every public mutation operation that returns, made while a backing
\* file path is resolved, dispatches as its last act a write of the
\* projection of the document it leaves.
C1_EveryMutationFlushes ==
  [][ (Called(MutationOps) /\ last'.err = "none" /\ HasSchemaFile(themis))
        => /\ Len(writes') > Len(writes)
           /\ writes'[Len(writes')] =
                Write("flush", themis'.schemaFile, Projection(themis')) ]_vars

\* C2: nothing orders the writes in flight: while an earlier write is
\* unsettled, a later one can take its next step (be opened, write its
\* text, run its callback) at once.
C2_LaterFlushMayOvertake ==
  \A i, j \in 1..Len(writes) :
    (i < j /\ ~Settled(writes[i])) =>
      /\ writes[j].stage = "queued" => ENABLED FsOpen(j, TRUE)
      /\ writes[j].stage = "opened" => ENABLED FsWrite(j, TRUE)
      /\ (writes[j].stage \in {"written", "failed"} /\ writes[j].kind = "flush")
           => ENABLED SyncCallback(j)

\* C2, the case: every write has succeeded, the last dispatched flush
\* carried the final document, and the file holds the text of an earlier
\* flush, which differs from the projection of the final document.
C2_StaleFileAtQuiescence ==
  /\ pc = "ready" /\ Len(writes) >= 2 /\ Quiescent
  /\ \A i \in 1..Len(writes) : writes[i].stage = "done"
  /\ writes[Len(writes)].kind = "flush"
  /\ writes[Len(writes)].content = Projection(themis)
  /\ file.kind = "whole" /\ file.json # Projection(themis)
  /\ \E i \in Flushes : i < Len(writes) /\ file.json = writes[i].content

\* C3: once every dispatched write has completed with success (at least
\* one has), the file is exactly the empty object of the bootstrap or
\* exactly the text of one flush, never a mixture of two texts.
C3_FileAlwaysWhole ==
  (writes # <<>> /\ \A i \in 1..Len(writes) : writes[i].stage = "done") =>
    /\ file.kind = "whole"
    /\ \/ file.json = JSONstringify(EmptyObj)
       \/ \E i \in Flushes : file.json = writes[i].content

\* C4: with a file name whose extension is not .json, construction
\* dispatches no write and no later call does: no file is created and
\* no backing file path is ever resolved.
C4_InvalidExtensionIsMemoryOnly ==
  (pc = "ready" /\ ExtName(schemaFilePath) # DotJson) =>
    (writes = <<>> /\ ~HasSchemaFile(themis))

ProbeKeys == ComponentKeys \cup {"Owner", "Old", "Missing"}

Stored(t, c, k) ==
  Has(t, "components") /\ Has(t.components, c) /\ Has(t.components[c], k)

\* C5: a component read accessor returns the stored definition on a hit
\* and an empty object on every miss.
C5_MissReadsEmptyObject ==
  pc = "ready" =>
    \A c \in ReadCategories, k \in ProbeKeys :
      getComponent(themis, c, k) =
        IF Stored(themis, c, k) THEN Value(themis.components[c][k]) ELSE Value(EmptyObj)

\* C6: after a loadFromFile that reports no failure, made while the file
\* holds a whole document, the publishable fields of the in-memory
\* document are those of the document in the file.
C6_ReloadReplaces ==
  [][ (Called({"loadFromFile"}) /\ last'.log = {} /\ file.kind = "whole")
        => Projection(themis') = file.json ]_vars

\* C7: a loadFromFile made while no file path is resolved or the file is
\* absent or unparsable throws nothing, logs the failure and leaves the
\* in-memory document as it was.
C7_FailedReloadIsAtomic ==
  [][ (Called({"loadFromFile"}) /\ (~HasSchemaFile(themis) \/ file.kind # "whole"))
        => /\ themis' = themis
           /\ last'.err = "none"
           /\ "Could not parse" \in last'.log ]_vars

\* a flush's callback runs with an error at this step
FlushFails(i) ==
  /\ i \in Flushes
  /\ writes[i].stage = "failed"
  /\ writes'[i].stage = "errored"

\* C8: the callback of a failed flush logs the failure and does nothing
\* else: it throws nothing, leaves the in-memory document as the
\* mutation left it and dispatches no write; a write is only ever
\* dispatched by the constructor or a public call, and a failed write
\* stays failed.
C8_FailedFlushIsSwallowed ==
  [][ /\ \A i \in 1..Len(writes) :
           FlushFails(i) =>
             /\ themis' = themis
             /\ pc' = pc
             /\ last'.err = "none"
             /\ "Sync failed" \in last'.log
             /\ writes' = Complete(i, "errored")
      /\ Len(writes') > Len(writes) => (pc = "new" \/ calls' = calls - 1)
      /\ \A i \in 1..Len(writes) :
           writes[i].stage = "errored" => writes'[i] = writes[i] ]_vars

\* C8, the case: a flush has just failed, nothing is in flight, and the
\* file does not hold the projection of the in-memory document.
C8_DivergedAfterFailedFlush ==
  /\ last.op = "syncCallback" /\ "Sync failed" \in last.log
  /\ writes[last.w].stage = "errored"
  /\ Quiescent
  /\ writes[last.w].content = Projection(themis)
  /\ (file.kind # "whole" \/ file.json # Projection(themis))

\* C9: the constructor never ends with the exception of a failed
\* directory creation.
C9_BootstrapFailureIsNotFatal ==
  ~(pc = "threw" /\ last.err = "mkdirSync")

\* C10: construction dispatches the empty-object write exactly when no
\* file exists, at most once, and a file that holds a document is left
\* as it is as long as no flush has been dispatched.
C10_BootstrapOnlyWhenAbsent ==
  [][ /\ (pc = "new" /\ pc' = "ready") => (writes' # <<>> <=> ~existsSync(file))
      /\ Cardinality({i \in 1..Len(writes') : writes'[i].kind = "bootstrap"}) <= 1
      /\ (file.kind = "whole" /\ \A i \in 1..Len(writes') : writes'[i].kind # "flush")
           => file' = file ]_vars

\* C11: a define call on servers, security requirements or tags leaves
\* the section equal to its prior value followed by the incoming
\* sequence, every incoming element kept, in order.
C11_SequencesConcatenate ==
  [][ /\ \A ss \in SyncServerLists :
           DefineServers(ss) => themis'.servers = Field(themis, "servers", <<>>) \o ss
      /\ \A s \in Servers :
           Server(s) => themis'.servers = Field(themis, "servers", <<>>) \o <<s>>
      /\ \A rs \in SyncSecurityLists :
           DefineSecurityRequirements(rs) =>
             themis'.security = Field(themis, "security", <<>>) \o rs
      /\ \A r \in SecurityRequirements :
           SecurityRequirement(r) =>
             themis'.security = Field(themis, "security", <<>>) \o <<r>>
      /\ \A ts \in SyncTagLists :
           DefineTags(ts) => themis'.tags = Field(themis, "tags", <<>>) \o ts ]_vars

\* every key of map m outside named is in m2 with the value it has in m
Kept(m, m2, named) ==
  \A k \in (DOMAIN m) \ named : k \in DOMAIN m2 /\ m2[k] = m[k]

\* the keys a components fragment names in category c
NamedIn(f, c) == IF Has(f, c) THEN DOMAIN f[c] ELSE {}

\* every component of the document before the step, except the keys
\* named(c) of each category c, is in the document after it, unchanged
ComponentsKept(named) ==
  Has(themis, "components") =>
    /\ Has(themis', "components")
    /\ \A c \in DOMAIN themis.components :
         /\ Has(themis'.components, c)
         /\ Kept(themis.components[c], themis'.components[c], NamedIn(named, c))

PathsKept(named) == Kept(themis.paths, themis'.paths, named)

\* C12: a define operation leaves every path and every component that
\* its fragment does not name present with the definition it had.
C12_SiblingsKept ==
  [][ /\ Called({"definePaths"}) =>
           \A ps \in SyncPathsFragments :
             DefinePaths(ps) => PathsKept(DOMAIN ps) /\ ComponentsKept(EmptyObj)
      /\ Called({"path"}) =>
           \A k \in CallerPathKeys, item \in PathItems :
             Path(k, item) => PathsKept({k}) /\ ComponentsKept(EmptyObj)
      /\ Called({"defineComponents"}) =>
           \A f \in SyncComponentsFragments :
             DefineComponents(f) => PathsKept({}) /\ ComponentsKept(f)
      /\ Called({"defineCategoryComponents"}) =>
           \A c \in DefinedCategories, f \in SyncCategoryFragments :
             DefineCategoryComponents(c, f) =>
               PathsKept({}) /\ ComponentsKept(One(c, f))
      /\ Called({"categoryComponent"}) =>
           \A c \in DefinedCategories, k \in SyncComponentKeys, def \in ComponentDefs :
             CategoryComponent(c, k, def) =>
               PathsKept({}) /\ ComponentsKept(One(c, One(k, def)))
      /\ Called(MutationOps \ {"definePaths", "path", "defineComponents",
                                "defineCategoryComponents", "categoryComponent"})
           => PathsKept({}) /\ ComponentsKept(EmptyObj) ]_vars

\* C12, the case: schema Pet was defined by one call and schema Owner by
\* the next, and the document holds both, Pet as it was.
C12_PetThenOwner ==
  /\ pc = "ready" /\ Len(writes) >= 2
  /\ LET a == writes[Len(writes) - 1].content
         b == writes[Len(writes)].content
     IN /\ Has(a, "components") /\ Has(a.components, "schemas")
        /\ DOMAIN a.components.schemas = {"Pet"}
        /\ Has(b, "components") /\ Has(b.components, "schemas")
        /\ DOMAIN b.components.schemas = {"Pet", "Owner"}
        /\ b.components.schemas["Pet"] = a.components.schemas["Pet"]
        /\ Has(themis, "components") /\ themis.components = b.components

\* the step leaves the document and the dispatched writes as st has them
Leaves(st) == themis' = st.t /\ writes' = st.w /\ last'.err = st.err

\* C13: a singular operation leaves the document, and the writes
\* dispatched, as the batch operation called with the one-entry fragment
\* does from the same state.
C13_SingularIsBatchOfOne ==
  [][ /\ Called({"path"}) =>
           \A k \in CallerPathKeys, item \in PathItems :
             Path(k, item) => Leaves(definePaths(Now, One(k, item)))
      /\ Called({"server"}) =>
           \A sv \in Servers : Server(sv) => Leaves(defineServers(Now, <<sv>>))
      /\ Called({"securityRequirement"}) =>
           \A r \in SecurityRequirements :
             SecurityRequirement(r) => Leaves(defineSecurityRequirements(Now, <<r>>))
      /\ Called({"categoryComponent"}) =>
           \A c \in DefinedCategories, k \in SyncComponentKeys, def \in ComponentDefs :
             CategoryComponent(c, k, def) =>
               Leaves(defineCategoryComponents(Now, c, One(k, def))) ]_vars

\* C13, the case: path() has just added a second path to the map and
\* dispatched the flush of the document it left.
C13_PathAddedToMap ==
  /\ last.op = "path" /\ last.err = "none"
  /\ DOMAIN themis.paths = SyncPathKeys
  /\ writes # <<>>
  /\ writes[Len(writes)] = Write("flush", themis.schemaFile, Projection(themis))

\* C14: a mutation operation called with an empty fragment leaves the
\* projection of the document, the text a flush writes, as it was.
C14_EmptyFragmentIsNoOp ==
  [][ /\ DefineInfo(EmptyObj) => Projection(themis') = Projection(themis)
      /\ DefineServers(<<>>) => Projection(themis') = Projection(themis)
      /\ DefineExternalDocs(EmptyObj) => Projection(themis') = Projection(themis)
      /\ DefineSecurityRequirements(<<>>) => Projection(themis') = Projection(themis)
      /\ DefineTags(<<>>) => Projection(themis') = Projection(themis)
      /\ DefinePaths(EmptyObj) => Projection(themis') = Projection(themis)
      /\ DefineComponents(EmptyObj) => Projection(themis') = Projection(themis)
      /\ \A c \in DefinedCategories :
           DefineCategoryComponents(c, EmptyObj) =>
             Projection(themis') = Projection(themis) /\ last'.err = "none" ]_vars

\* pairs of non-empty fragments of one keyed map that name disjoint keys
Disjoint(fragments) ==
  {ab \in fragments \X fragments :
     /\ DOMAIN ab[1] # {} /\ DOMAIN ab[2] # {}
     /\ (DOMAIN ab[1]) \cap (DOMAIN ab[2]) = {}}

\* registry fragments that name disjoint keys, each with their union: of
\* two categories, and of two keys of one category
DisjointRegistryFragments ==
  LET def == [type |-> "object"]
  IN { <<[schemas |-> One("Pet", def)], [links |-> One("Next", def)],
         [schemas |-> One("Pet", def), links |-> One("Next", def)]>>,
       <<[schemas |-> One("Pet", def)], [schemas |-> One("Owner", def)],
         [schemas |-> (One("Pet", def) @@ One("Owner", def))]>> }

\* the two calls end as the one call does: same document, same exception
SameOutcome(st1, st2) == st1.t = st2.t /\ st1.err = st2.err

\* C15: from any state of the document, defining fragment A then B and
\* defining their union in one call leave the same document, when A and
\* B name disjoint keys; the pairs hold both orders, so A then B and B
\* then A agree as well.
C15_DisjointOrderIndependent ==
  pc = "ready" =>
    /\ \A ab \in Disjoint(SyncPathsFragments) :
         SameOutcome(definePaths(definePaths(Now, ab[1]), ab[2]),
                     definePaths(Now, ab[1] @@ ab[2]))
    /\ \A c \in DefinedCategories, ab \in Disjoint(SyncCategoryFragments) :
         SameOutcome(
           defineCategoryComponents(defineCategoryComponents(Now, c, ab[1]), c, ab[2]),
           defineCategoryComponents(Now, c, ab[1] @@ ab[2]))
    /\ \A abu \in DisjointRegistryFragments :
         /\ SameOutcome(defineComponents(defineComponents(Now, abu[1]), abu[2]),
                        defineComponents(Now, abu[3]))
         /\ SameOutcome(defineComponents(defineComponents(Now, abu[2]), abu[1]),
                        defineComponents(Now, abu[3]))

\* C15, the case: two calls have defined one path each, and the path map
\* is the one a single call with both paths gives.
C15_TwoPathsInTwoCalls ==
  /\ last.op \in {"definePaths", "path"} /\ Len(writes) >= 2
  /\ LET a == writes[Len(writes) - 1].content
         b == writes[Len(writes)].content
     IN /\ Has(a, "paths") /\ Cardinality(DOMAIN a.paths) = 1
        /\ Has(b, "paths") /\ DOMAIN b.paths = SyncPathKeys
        /\ themis.paths = b.paths
        /\ \E item \in PathItems : themis.paths = [k \in SyncPathKeys |-> item]

\* C16: when a mutation returns, the document holds its merged result
\* and the write it dispatched is still queued; no step of a write, and
\* no callback, whether the write succeeds or fails, changes the
\* document, so every later call starts from that result.
C16_MemoryIsSynchronous ==
  [][ /\ (Called({"defineInfo"}) /\ last'.err = "none") =>
           \A f \in InfoFragments :
             DefineInfo(f) =>
               /\ \A k \in DOMAIN f : themis'.info[k] = f[k]
               /\ Kept(Field(themis, "info", EmptyObj), themis'.info, DOMAIN f)
      /\ (Called({"categoryComponent"}) /\ last'.err = "none") =>
           \A c \in DefinedCategories, k \in ComponentKeys, def \in ComponentDefs :
             CategoryComponent(c, k, def) =>
               /\ Stored(themis', c, k) /\ themis'.components[c][k] = def
               /\ c \in ReadCategories => getComponent(themis', c, k) = Value(def)
      /\ (Called(MutationOps) /\ last'.err = "none" /\ HasSchemaFile(themis)) =>
           writes'[Len(writes')].stage = "queued"
      /\ (pc = "ready" /\ calls' = calls) =>
           shaveDownToSpec(themis') = shaveDownToSpec(themis) ]_vars

\* C16, the case: the flush of one mutation has failed, the flush of the
\* next is still queued, and the document holds the results of both.
C16_BothResultsWhileFlushesPend ==
  /\ pc = "ready" /\ Len(writes) >= 2
  /\ writes[Len(writes)].kind = "flush" /\ writes[Len(writes)].stage = "queued"
  /\ \E i \in Flushes : i < Len(writes) /\ writes[i].stage = "errored"
  /\ Has(themis, "info")
  /\ \E f \in InfoFragments : \A k \in DOMAIN f : themis.info[k] = f[k]
  /\ Stored(themis, "schemas", "Pet")
  /\ writes[Len(writes)].content = Projection(themis)

\* C17: the text of every flush holds publishable fields only; the
\* version identifier and the resolved file path are never in it.
C17_FlushesHoldPublishableOnly ==
  \A i \in Flushes :
    /\ DOMAIN writes[i].content \subseteq Publishable
    /\ "apiVersion" \notin DOMAIN writes[i].content
    /\ "schemaFile" \notin DOMAIN writes[i].content

\* C17, the case: a flush of the current document has been dispatched
\* by an instance that holds a version identifier and a resolved path.
C17_FlushOfInstanceWithBookkeeping ==
  /\ pc = "ready" /\ Has(themis, "apiVersion") /\ HasSchemaFile(themis)
  /\ writes # <<>> /\ Len(writes) \in Flushes
  /\ writes[Len(writes)].content = Projection(themis)
  /\ {"openapi", "info", "paths", "components"} \subseteq DOMAIN writes[Len(writes)].content

\* the pointer '#/components/<category>/<key>'
Pointer(c, k) == <<"#", "/", "components", "/", c, "/", k>>

\* C18: a reference formatter returns the one-field object whose $ref is
\* '#/components/<category>/<key>', whatever the document holds, and
\* changes neither the document nor the writes dispatched.
C18_RefIsPureTemplate ==
  [][ Called({"getComponentRef"}) =>
        \A c \in ReadCategories, k \in SyncReadKeys :
          GetComponentRef(c, k) =>
            /\ DOMAIN last'.ret.v = {"$ref"}
            /\ last'.ret.v["$ref"] = Pointer(c, k)
            /\ last'.err = "none"
            /\ themis' = themis /\ writes' = writes /\ cache' = cache ]_vars

\* C18, the case: a pointer to schema Pet has been returned while the
\* registry exists and holds no schema Pet.
C18_RefToUndefinedKey ==
  /\ last.op = "getComponentRef"
  /\ last.ret = Value(One("$ref", Pointer("schemas", "Pet")))
  /\ Has(themis, "components") /\ ~Stored(themis, "schemas", "Pet")

\* C19: every category in which the document holds a component has a
\* read accessor and a reference formatter.
C19_EveryCategoryReadable ==
  (pc = "ready" /\ Has(themis, "components")) =>
    \A c \in DOMAIN themis.components : c \in Categories /\ c \in ReadCategories

\* the category holds no entry yet: the registry or the category is
\* undefined
NoEntries(t, c) == ~Has(t, "components") \/ ~Has(t.components, c)

\* C20: a define call for a category with no entries succeeds, whether
\* the registry is undefined or only lacks the category; afterwards the
\* category holds the fragment's entries and every other category of
\* the registry is as it was.
C20_CategoryInitialisesLazily ==
  [][ Called({"defineCategoryComponents"}) =>
        \A c \in DefinedCategories, f \in SyncCategoryFragments :
          (DefineCategoryComponents(c, f) /\ NoEntries(themis, c)) =>
            /\ last'.err = "none"
            /\ Has(themis', "components") /\ Has(themis'.components, c)
            /\ themis'.components[c] = f
            /\ Kept(Field(themis, "components", EmptyObj), themis'.components, {c})
            /\ DOMAIN themis'.components =
                 DOMAIN Field(themis, "components", EmptyObj) \cup {c} ]_vars

\* r is e merged with f field by field: f's fields with f's values,
\* e's other fields with e's values, and nothing else
FieldByField(e, f, r) ==
  /\ DOMAIN r = (DOMAIN e) \cup (DOMAIN f)
  /\ \A k \in DOMAIN f : r[k] = f[k]
  /\ Kept(e, r, DOMAIN f)

\* C21: defineInfo and defineExternalDocs leave every scalar field of
\* the fragment with the fragment's value, every field the fragment does
\* not have with the value it had, and add the fragment's new fields as
\* they are; a field that is an object on both sides (contact, license)
\* is merged by the same rule.
C21_FieldsMergeFieldByField ==
  [][ /\ Called({"defineInfo"}) =>
           \A f \in SyncInfoFragments :
             DefineInfo(f) =>
               LET E == Field(themis, "info", EmptyObj)
                   R == themis'.info
               IN /\ DOMAIN R = (DOMAIN E) \cup (DOMAIN f)
                  /\ Kept(E, R, DOMAIN f)
                  /\ \A k \in DOMAIN f :
                       IF k \in InfoMapFields /\ k \in DOMAIN E
                       THEN FieldByField(E[k], f[k], R[k])
                       ELSE R[k] = f[k]
      /\ Called({"defineExternalDocs"}) =>
           \A f \in SyncExternalDocsFragments :
             DefineExternalDocs(f) =>
               FieldByField(Field(themis, "externalDocs", EmptyObj), f,
                            themis'.externalDocs) ]_vars

\* C21, the case: a second defineInfo has given the contact a new email
\* and left its name, and the title, as they were.
C21_ContactMergedInPlace ==
  /\ last.op = "defineInfo" /\ Has(themis, "info")
  /\ Has(themis.info, "contact")
  /\ themis.info.contact = [name |-> "n", email |-> "e2"]
  /\ themis.info.title = InfoInit.title

\* C22: no two entries of the tag list carry the same name.
C22_TagNamesUnique ==
  (pc = "ready" /\ Has(themis, "tags")) =>
    \A i, j \in 1..Len(themis.tags) :
      i # j => themis.tags[i].val # themis.tags[j].val

\* C23: every key of the path map begins with "/".
C23_PathKeysStartWithSlash ==
  pc = "ready" => \A k \in DOMAIN themis.paths : FirstChar[k] = Slash

\* the configuration the constructor uses: its argument, or else the
\* content of themis.config.json
Effective(in) == CHOOSE c \in (IF in.config # {} THEN in.config ELSE in.module) : TRUE

\* the configured value of key k when it is present, not empty and not
\* the default; else the default
Configured(c, k, default) ==
  IF k \in DOMAIN c /\ c[k] # <<>> /\ c[k] # default THEN c[k] ELSE default

C25_BootstrapKeepsPersisted ==
  ( /\ Quiescent
    /\ \E b \in 1..Len(writes) : writes[b].kind = "bootstrap" /\ writes[b].stage = "done"
    /\ \E i \in Flushes : writes[i].stage = "done"
    /\ Projection(themis) # JSONstringify(EmptyObj) )
  => ~(file.kind = "whole" /\ file.json = JSONstringify(EmptyObj))

\* C26: every write a describe call dispatches carries the document with
\* all of the call's sections applied, which is the document the call
\* leaves.
C26_DescribeFlushesWholeCall ==
  [][ (Called({"describe"}) /\ last'.err = "none") =>
        \A i \in (Len(writes) + 1)..Len(writes') :
          writes'[i].content = Projection(themis') ]_vars

\* every write dispatched has succeeded and has completed, none of them
\* before a write dispatched earlier
CompletedInDispatchOrder ==
  \A i \in 1..Len(writes) : writes[i].stage = "done" /\ ~writes[i].overtook

\* C27: a flush holds the document as it was when the flush was dispatched,
\* whatever is changed before the write completes; so when every write has
\* succeeded and they have completed in dispatch order, the file holds the
\* projection of the document in memory.
C27_OrderedFlushesLeaveFileCurrent ==
  [][ /\ \A i \in 1..Len(writes) :
           i <= Len(writes') /\ writes'[i].content = writes[i].content
      /\ Called(MutationOps) =>
           \A i \in ((Len(writes) + 1)..Len(writes')) \cap {Len(writes')} :
             writes'[i].content = Projection(themis')
      /\ (pc' = "ready" /\ Flushes' # {} /\ CompletedInDispatchOrder') =>
           file' = WholeFile(Projection(themis')) ]_vars

\* the publishable section each top-level define operation is about
Target ==
  [setOpenapi |-> "openapi", defineInfo |-> "info", defineServers |-> "servers",
   server |-> "servers", defineExternalDocs |-> "externalDocs",
   defineSecurityRequirements |-> "security", securityRequirement |-> "security",
   defineTags |-> "tags", definePaths |-> "paths", path |-> "paths",
   defineComponents |-> "components", defineCategoryComponents |-> "components",
   categoryComponent |-> "components"]

\* maps m and m2 have the same keys outside named, with the same values
SameOutside(m, m2, named) ==
  /\ (DOMAIN m) \ named = (DOMAIN m2) \ named
  /\ \A k \in (DOMAIN m) \ named : m2[k] = m[k]

\* C28: a define operation leaves every field of the instance but its own
\* section as it was; a per-category define leaves every other category
\* of the registry as it was too; no mutation, read, reference formatter
\* or reload changes the version identifier or the resolved file path.
C28_OnlyTheTargetChanges ==
  [][ /\ \A op \in DOMAIN Target :
           Called({op}) => SameOutside(themis, themis', {Target[op]})
      /\ Called({"defineCategoryComponents", "categoryComponent"}) =>
           \A c \in DefinedCategories, k \in ComponentKeys, def \in ComponentDefs :
             (DefineCategoryComponents(c, One(k, def)) \/ CategoryComponent(c, k, def)) =>
               SameOutside(Field(themis, "components", EmptyObj),
                           Field(themis', "components", EmptyObj), {c})
      /\ Called(MutationOps \cup {"getComponent", "getComponentRef", "loadFromFile"}) =>
           /\ Field(themis', "apiVersion", EmptyStr) = themis.apiVersion
           /\ Field(themis', "schemaFile", EmptyStr) = themis.schemaFile
           /\ schemaFilePath' = schemaFilePath ]_vars

\* C28, the case: a per-category define has added an entry to a registry
\* that holds another category, in a document that holds other sections.
C28_CategoryDefinedBesideAnother ==
  /\ last.op \in {"defineCategoryComponents", "categoryComponent"}
  /\ last.err = "none"
  /\ Has(themis, "components")
  /\ DOMAIN themis.components = {"schemas", "links"}
  /\ DOMAIN themis.components.schemas = {"Owner", "Pet"}
  /\ DOMAIN themis.components.links = {"Next"}
  /\ Has(themis, "info") /\ Has(themis, "paths")

\* C29: from every state of the document, defineComponents with the one
\* category c holding fragment f, and the define operation of category c
\* with f, both succeed and leave the same component registry.
C29_BulkAgreesWithPerCategory ==
  pc = "ready" =>
    \A c \in DefinedCategories, f \in SyncCategoryFragments :
      LET bulk == defineComponents(Now, One(c, f))
          single == defineCategoryComponents(Now, c, f)
      IN /\ bulk.err = "none" /\ single.err = "none"
         /\ Has(bulk.t, "components") /\ Has(single.t, "components")
         /\ single.t.components = bulk.t.components

\* schema s as its reader sees it: the required list in place of its address
Resolved(h, s) ==
  LET e == Extendee(s)
      e1 == IF Has(e, "required") THEN Put(e, "required", h[e.required]) ELSE e
  IN IF Has(s, "items") THEN Put(s, "items", e1) ELSE e1

\* the required list of schema s, empty when it has none
RequiredList(h, s) ==
  IF RequiredOf(s) = {} THEN <<>> ELSE h[CHOOSE a \in RequiredOf(s) : TRUE]

\* C30: a call of EXTENDPROPERTIES leaves the schema it was handed as it
\* was, its required list (or its items' required list) included, and
\* the schema it returns has as required list the input's entries
\* followed by the supplied ones, also when the input had no such list.
C30_ExtendPropertiesIsPure ==
  [][ \A schema \in extended.schema \cup extended.ret,
         properties \in ExtensionProperties, required \in ExtensionRequired :
        ExtendProperties(schema, properties, required) =>
          /\ Resolved(arrays', schema) = Resolved(arrays, schema)
          /\ \A ret \in extended'.ret :
               RequiredList(arrays', ret) = RequiredList(arrays, schema) \o Spread(required) ]_vars

====
